---------------------------- MODULE Spec2Model ----------------------------
(***************************************************************************)
(* A model of the cue sheet parser (package cuesheetgo, final revision of  *)
(* the library: src/unnamed/part_000 lines 222-546).                       *)
(*                                                                         *)
(* Strings are sequences of one-character strings, so that trimming,       *)
(* splitting into fields, upper-casing and number scanning are computed    *)
(* the way the Go code computes them.  The input stream is not stored: the *)
(* line the scanner yields next is chosen at every step, which covers      *)
(* every finite stream of the lines below.                                 *)
(***************************************************************************)
EXTENDS Integers, Sequences, FiniteSets, TLC

VARIABLES
    pc,        \* where Parse is: "start", "scan", "done" (returned), "panic"
    maybeBom,  \* outcome of the first ReadRune: "unread", "EOF", "BOM", "rune"
    c,         \* the CueSheet under construction
    lineNr,    \* Parse's line counter
    line,      \* the trimmed text of the line scanned last
    ret,       \* what Parse returned: [doc |-> <<>> (nil) or <<c>>, err |-> error]
    \* history variables: they record what happened and decide nothing
    seen,      \* the command names (upper case) of the lines dispatched so far
    trackNrs,  \* per track, the number its TRACK command gave
    indexed,   \* per track, how many INDEX commands succeeded on it
    read       \* how many lines the scanner has yielded

vars == <<pc, maybeBom, c, lineNr, line, ret, seen, trackNrs, indexed, read>>
hist == <<seen, trackNrs, indexed>>

-----------------------------------------------------------------------------
(* Characters and strings *)

\* trimChars: space, double quote, tab, newline
trimChars == {" ", "\"", "\t", "\n"}

\* unicode.IsSpace, restricted to the characters that occur in the model
IsSpace(ch) == ch \in {" ", "\t", "\n", "\f", "\r"}

Digits == {"0", "1", "2", "3", "4", "5", "6", "7", "8", "9"}

DigitVal(ch) ==
    CASE ch = "0" -> 0 [] ch = "1" -> 1 [] ch = "2" -> 2 [] ch = "3" -> 3
      [] ch = "4" -> 4 [] ch = "5" -> 5 [] ch = "6" -> 6 [] ch = "7" -> 7
      [] ch = "8" -> 8 [] ch = "9" -> 9

DigitChar(n) ==
    CASE n = 0 -> "0" [] n = 1 -> "1" [] n = 2 -> "2" [] n = 3 -> "3"
      [] n = 4 -> "4" [] n = 5 -> "5" [] n = 6 -> "6" [] n = 7 -> "7"
      [] n = 8 -> "8" [] n = 9 -> "9"

\* unicode.ToUpper on one character
UpperChar(ch) ==
    CASE ch = "a" -> "A" [] ch = "b" -> "B" [] ch = "c" -> "C" [] ch = "d" -> "D"
      [] ch = "e" -> "E" [] ch = "f" -> "F" [] ch = "g" -> "G" [] ch = "h" -> "H"
      [] ch = "i" -> "I" [] ch = "j" -> "J" [] ch = "k" -> "K" [] ch = "l" -> "L"
      [] ch = "m" -> "M" [] ch = "n" -> "N" [] ch = "o" -> "O" [] ch = "p" -> "P"
      [] ch = "q" -> "Q" [] ch = "r" -> "R" [] ch = "s" -> "S" [] ch = "t" -> "T"
      [] ch = "u" -> "U" [] ch = "v" -> "V" [] ch = "w" -> "W" [] ch = "x" -> "X"
      [] ch = "y" -> "Y" [] ch = "z" -> "Z"
      [] OTHER -> ch

\* strings.ToUpper
ToUpper(s) == [i \in 1..Len(s) |-> UpperChar(s[i])]

RECURSIVE TrimLeft(_, _)
TrimLeft(s, cutset) ==
    IF s # <<>> /\ Head(s) \in cutset THEN TrimLeft(Tail(s), cutset) ELSE s

RECURSIVE TrimRight(_, _)
TrimRight(s, cutset) ==
    IF s # <<>> /\ s[Len(s)] \in cutset
    THEN TrimRight(SubSeq(s, 1, Len(s) - 1), cutset)
    ELSE s

\* strings.Trim(s, cutset)
Trim(s, cutset) == TrimRight(TrimLeft(s, cutset), cutset)

\* strings.Fields: walk s, closing the current field at every white space
RECURSIVE FieldsFrom(_, _, _)
FieldsFrom(s, cur, acc) ==
    IF s = <<>>
    THEN IF cur = <<>> THEN acc ELSE Append(acc, cur)
    ELSE IF IsSpace(Head(s))
         THEN FieldsFrom(Tail(s), <<>>, IF cur = <<>> THEN acc ELSE Append(acc, cur))
         ELSE FieldsFrom(Tail(s), Append(cur, Head(s)), acc)

Fields(s) == FieldsFrom(s, <<>>, <<>>)

\* strings.Join(elems, " ")
RECURSIVE Join(_)
Join(elems) ==
    IF elems = <<>> THEN <<>>
    ELSE IF Len(elems) = 1 THEN elems[1]
    ELSE elems[1] \o <<" ">> \o Join(Tail(elems))

\* the value of a string of decimal digits
RECURSIVE DecimalValue(_)
DecimalValue(s) ==
    IF s = <<>> THEN 0
    ELSE 10 * DecimalValue(SubSeq(s, 1, Len(s) - 1)) + DigitVal(s[Len(s)])

AllDigits(s) == \A i \in 1..Len(s) : s[i] \in Digits

\* strconv.Atoi: an optional sign, then one or more decimal digits
Atoi(s) ==
    LET signed == s # <<>> /\ Head(s) \in {"+", "-"}
        body   == IF signed THEN Tail(s) ELSE s
    IN  IF body = <<>> \/ ~AllDigits(body)
        THEN [ok |-> FALSE, val |-> 0]
        ELSE [ok |-> TRUE,
              val |-> IF signed /\ Head(s) = "-"
                      THEN 0 - DecimalValue(body) ELSE DecimalValue(body)]


\* fmt.Sscanf's %2d: an optional sign and decimal digits, two characters at most
\* (the sign counts), at least one digit
ScanInt2(s) ==
    LET fail == [ok |-> FALSE, val |-> 0, rest |-> s]
    IN  IF s = <<>> THEN fail
        ELSE IF Head(s) \in {"+", "-"}
        THEN IF Len(s) >= 2 /\ s[2] \in Digits
             THEN [ok |-> TRUE,
                   val |-> IF Head(s) = "-" THEN 0 - DigitVal(s[2]) ELSE DigitVal(s[2]),
                   rest |-> SubSeq(s, 3, Len(s))]
             ELSE fail
        ELSE IF Head(s) \in Digits
        THEN IF Len(s) >= 2 /\ s[2] \in Digits
             THEN [ok |-> TRUE, val |-> 10 * DigitVal(s[1]) + DigitVal(s[2]),
                   rest |-> SubSeq(s, 3, Len(s))]
             ELSE [ok |-> TRUE, val |-> DigitVal(s[1]), rest |-> Tail(s)]
        ELSE fail

\* a literal character of the format: the next input character must equal it
ScanLiteral(s, ch) ==
    IF s # <<>> /\ Head(s) = ch
    THEN [ok |-> TRUE, rest |-> Tail(s)]
    ELSE [ok |-> FALSE, rest |-> s]

\* fmt.Sscanf(indexPoint, "%2d:%2d:%2d", &minutes, &seconds, &frames); input left
\* over after the last verb is not an error
Sscanf(indexPoint) ==
    LET m  == ScanInt2(indexPoint)
        c1 == ScanLiteral(m.rest, ":")
        s  == ScanInt2(c1.rest)
        c2 == ScanLiteral(s.rest, ":")
        f  == ScanInt2(c2.rest)
    IN  [ok |-> m.ok /\ c1.ok /\ s.ok /\ c2.ok /\ f.ok,
         minutes |-> m.val, seconds |-> s.val, frames |-> f.val]

-----------------------------------------------------------------------------
(* Errors.  An error value is its leaf cause with the numbers or the value the
   message prints, and ctx, the messages wrapped around it from the outside in.
   cause = "" is Go's nil error. *)

ZeroIndex == [Frame |-> 0, Timestamp |-> 0]

Err(cause, n1, n2, sval, ival) ==
    [cause |-> cause, n1 |-> n1, n2 |-> n2, sval |-> sval, ival |-> ival,
     ctx |-> <<>>, cmd |-> <<>>, lineNr |-> 0, line |-> <<>>]

NoErr == Err("", 0, 0, <<>>, ZeroIndex)

\* a run-time panic of the Go program (index out of range); it unwinds through
\* every caller, so nothing wraps it
PanicErr == Err("panic: index out of range", 0, 0, <<>>, ZeroIndex)

IsErr(e) == e.cause # ""
IsPanic(e) == e.cause = PanicErr.cause

\* fmt.Errorf("<msg>: %w", err)
Wrap(msg, e) ==
    IF ~IsErr(e) \/ IsPanic(e) THEN e ELSE [e EXCEPT !.ctx = <<msg>> \o @]

-----------------------------------------------------------------------------
(* Data *)

maxTracks == 99

\* var track Track
NewTrack == [Title |-> <<>>, Type |-> <<>>, Index01 |-> ZeroIndex]

\* c := &CueSheet{Tracks: []*Track{}}
NewCueSheet ==
    [AlbumPerformer |-> <<>>, AlbumTitle |-> <<>>, Date |-> <<>>, Format |-> <<>>,
     FileName |-> <<>>, Genre |-> <<>>, Tracks |-> <<>>]

\* the Command descriptors
FileCommand == [Name |-> <<"F", "I", "L", "E">>, ExactParams |-> 2, MinParams |-> 0]
PerformerCommand ==
    [Name |-> <<"P", "E", "R", "F", "O", "R", "M", "E", "R">>, ExactParams |-> 0, MinParams |-> 1]
TitleCommand == [Name |-> <<"T", "I", "T", "L", "E">>, ExactParams |-> 0, MinParams |-> 1]
TrackCommand == [Name |-> <<"T", "R", "A", "C", "K">>, ExactParams |-> 2, MinParams |-> 0]
TrackIndexCommand == [Name |-> <<"I", "N", "D", "E", "X">>, ExactParams |-> 2, MinParams |-> 0]
RemCommand == [Name |-> <<"R", "E", "M">>, ExactParams |-> 0, MinParams |-> 1]
RemGenreCommand == [Name |-> <<"G", "E", "N", "R", "E">>, ExactParams |-> 0, MinParams |-> 1]
RemDateCommand == [Name |-> <<"D", "A", "T", "E">>, ExactParams |-> 0, MinParams |-> 1]

\* a faulty validateParameters: an exact count is taken as a minimum
validateParametersAtLeast(cmd, parameters) ==
    IF cmd.ExactParams > 0 /\ parameters < cmd.ExactParams
    THEN Err("expected %d parameters, got %d", cmd.ExactParams, parameters, <<>>, ZeroIndex)
    ELSE IF cmd.MinParams > 0 /\ parameters < cmd.MinParams
    THEN Err("expected at least %d parameters, got %d", cmd.MinParams, parameters, <<>>, ZeroIndex)
    ELSE NoErr

\* (cmd *Command) validateParameters(parameters int)
validateParameters(cmd, parameters) ==
    IF cmd.ExactParams > 0 /\ parameters # cmd.ExactParams
    THEN Err("expected %d parameters, got %d", cmd.ExactParams, parameters, <<>>, ZeroIndex)
    ELSE IF cmd.MinParams > 0 /\ parameters < cmd.MinParams
    THEN Err("expected at least %d parameters, got %d", cmd.MinParams, parameters, <<>>, ZeroIndex)
    ELSE NoErr

-----------------------------------------------------------------------------
(* The field assigner.  assignValue[T] is instantiated at string and at
   IndexPoint; each returns the field after the call and the error. *)

\* a faulty assignValue: assigning the value the field already holds is let through
assignValueSameOk(val, field) ==
    IF field # <<>> /\ field # val
    THEN [field |-> field, err |-> Err("field already set: %v", 0, 0, field, ZeroIndex)]
    ELSE [field |-> val, err |-> NoErr]

\* assignValue[string]
assignValue(val, field) ==
    IF field # <<>>
    THEN [field |-> field, err |-> Err("field already set: %v", 0, 0, field, ZeroIndex)]
    ELSE [field |-> val, err |-> NoErr]

\* assignValue[IndexPoint]
assignIndexPoint(val, field) ==
    IF field # ZeroIndex
    THEN [field |-> field, err |-> Err("field already set: %v", 0, 0, <<>>, field)]
    ELSE [field |-> val, err |-> NoErr]

parseString(val, field) == assignValue(Trim(val, trimChars), field)

-----------------------------------------------------------------------------
(* The command handlers.  Each takes the cue sheet and the parameter tokens and
   returns [c |-> the cue sheet after the call, err |-> the error]. *)

Res(cs, e) == [c |-> cs, err |-> e]

\* the format is assigned first; the file name only when that succeeded
parseFile(cs, parameters) ==
    LET v == validateParameters(FileCommand, Len(parameters)) IN
    IF IsErr(v) THEN Res(cs, Wrap("invalid FILE parameters", v))
    ELSE
    LET last == Len(parameters)
        fmt  == parseString(parameters[last], cs.Format)
        c1   == [cs EXCEPT !.Format = fmt.field]
        name == parseString(Join(SubSeq(parameters, 1, last - 1)), c1.FileName)
    IN  IF IsErr(fmt.err) THEN Res(cs, Wrap("error parsing FILE format", fmt.err))
        ELSE IF IsErr(name.err) THEN Res(c1, Wrap("error parsing FILE name", name.err))
        ELSE Res([c1 EXCEPT !.FileName = name.field], NoErr)

parsePerformer(cs, parameters) ==
    LET v == validateParameters(PerformerCommand, Len(parameters)) IN
    IF IsErr(v) THEN Res(cs, Wrap("invalid PERFORMER parameters", v))
    ELSE
    LET a == parseString(Join(parameters), cs.AlbumPerformer)
    IN  IF IsErr(a.err) THEN Res(cs, Wrap("error parsing PERFORMER parameters", a.err))
        ELSE Res([cs EXCEPT !.AlbumPerformer = a.field], NoErr)

\* a faulty isNextTrack: only a number below the expected one is refused
isNextTrackSkips(cs, nr) ==
    LET trackNr     == Atoi(nr)
        nextTrackNr == Len(cs.Tracks) + 1
    IN  IF ~trackNr.ok
        THEN Err("failed to parse track number", 0, 0, nr, ZeroIndex)
        ELSE IF trackNr.val < nextTrackNr
        THEN Err("expected track number %d, got %d", nextTrackNr, trackNr.val, <<>>, ZeroIndex)
        ELSE IF trackNr.val > maxTracks
        THEN Err("cannot have more than %d tracks", maxTracks, 0, <<>>, ZeroIndex)
        ELSE NoErr

\* a faulty isNextTrack: the ceiling is not checked
isNextTrackNoCeiling(cs, nr) ==
    LET trackNr     == Atoi(nr)
        nextTrackNr == Len(cs.Tracks) + 1
    IN  IF ~trackNr.ok
        THEN Err("failed to parse track number", 0, 0, nr, ZeroIndex)
        ELSE IF trackNr.val # nextTrackNr
        THEN Err("expected track number %d, got %d", nextTrackNr, trackNr.val, <<>>, ZeroIndex)
        ELSE NoErr

\* a faulty isNextTrack: the ceiling is checked before the number is compared
isNextTrackCeilingFirst(cs, nr) ==
    LET trackNr     == Atoi(nr)
        nextTrackNr == Len(cs.Tracks) + 1
    IN  IF ~trackNr.ok
        THEN Err("failed to parse track number", 0, 0, nr, ZeroIndex)
        ELSE IF nextTrackNr > maxTracks
        THEN Err("cannot have more than %d tracks", maxTracks, 0, <<>>, ZeroIndex)
        ELSE IF trackNr.val # nextTrackNr
        THEN Err("expected track number %d, got %d", nextTrackNr, trackNr.val, <<>>, ZeroIndex)
        ELSE NoErr

isNextTrack(cs, nr) ==
    LET trackNr     == Atoi(nr)
        nextTrackNr == Len(cs.Tracks) + 1
    IN  IF ~trackNr.ok
        THEN Err("failed to parse track number", 0, 0, nr, ZeroIndex)
        ELSE IF trackNr.val # nextTrackNr
        THEN Err("expected track number %d, got %d", nextTrackNr, trackNr.val, <<>>, ZeroIndex)
        ELSE IF trackNr.val > maxTracks
        THEN Err("cannot have more than %d tracks", maxTracks, 0, <<>>, ZeroIndex)
        ELSE NoErr

parseTrack(cs, parameters) ==
    LET v == validateParameters(TrackCommand, Len(parameters)) IN
    IF IsErr(v) THEN Res(cs, Wrap("invalid TRACK parameters", v))
    ELSE
    LET nr   == parameters[1]
        typ  == parameters[2]
        next == isNextTrack(cs, nr)
        t    == parseString(typ, NewTrack.Type)
    IN  IF IsErr(next) THEN Res(cs, Wrap("invalid track number", next))
        ELSE IF IsErr(t.err) THEN Res(cs, Wrap("error parsing track type", t.err))
        ELSE Res([cs EXCEPT !.Tracks = Append(@, [NewTrack EXCEPT !.Type = t.field])], NoErr)

\* a faulty parseTrackIndex01: the timestamp is scanned before the index number is
\* looked at
parseTrackIndex01StampFirst(cs, parameters) ==
    LET v == validateParameters(TrackIndexCommand, Len(parameters)) IN
    IF IsErr(v) THEN Res(cs, Wrap("invalid TRACK INDEX parameters", v))
    ELSE
    LET nr         == parameters[1]
        indexPoint == parameters[2]
        indexNr    == Atoi(nr)
        scanned    == Sscanf(indexPoint)
        duration   == scanned.minutes * 60 + scanned.seconds
        index      == [Frame |-> scanned.frames, Timestamp |-> duration]
        n          == Len(cs.Tracks)
    IN  IF ~scanned.ok
        THEN Res(cs, Err("error parsing timestamp and frame", 0, 0, indexPoint, ZeroIndex))
        ELSE IF ~indexNr.ok
        THEN Res(cs, Err("failed to parse index number", 0, 0, nr, ZeroIndex))
        ELSE IF indexNr.val # 1
        THEN Res(cs, Err("expected index number 1, got %d", indexNr.val, 0, <<>>, ZeroIndex))
        ELSE IF n = 0 THEN Res(cs, PanicErr)
        ELSE LET a == assignIndexPoint(index, cs.Tracks[n].Index01)
             IN  Res([cs EXCEPT !.Tracks[n].Index01 = a.field], a.err)

\* a faulty parseTrackIndex01: the index goes to the first track of the list
parseTrackIndex01First(cs, parameters) ==
    LET v == validateParameters(TrackIndexCommand, Len(parameters)) IN
    IF IsErr(v) THEN Res(cs, Wrap("invalid TRACK INDEX parameters", v))
    ELSE
    LET nr         == parameters[1]
        indexPoint == parameters[2]
        indexNr    == Atoi(nr)
        scanned    == Sscanf(indexPoint)
        duration   == scanned.minutes * 60 + scanned.seconds
        index      == [Frame |-> scanned.frames, Timestamp |-> duration]
        n          == Len(cs.Tracks)
    IN  IF ~indexNr.ok
        THEN Res(cs, Err("failed to parse index number", 0, 0, nr, ZeroIndex))
        ELSE IF indexNr.val # 1
        THEN Res(cs, Err("expected index number 1, got %d", indexNr.val, 0, <<>>, ZeroIndex))
        ELSE IF ~scanned.ok
        THEN Res(cs, Err("error parsing timestamp and frame", 0, 0, indexPoint, ZeroIndex))
        ELSE IF n = 0 THEN Res(cs, PanicErr)
        ELSE LET a == assignIndexPoint(index, cs.Tracks[1].Index01)
             IN  Res([cs EXCEPT !.Tracks[1].Index01 = a.field], a.err)

\* c.Tracks[len(c.Tracks)-1] panics when there is no track yet
parseTrackIndex01(cs, parameters) ==
    LET v == validateParameters(TrackIndexCommand, Len(parameters)) IN
    IF IsErr(v) THEN Res(cs, Wrap("invalid TRACK INDEX parameters", v))
    ELSE
    LET nr         == parameters[1]
        indexPoint == parameters[2]
        indexNr    == Atoi(nr)
        scanned    == Sscanf(indexPoint)
        duration   == scanned.minutes * 60 + scanned.seconds
        index      == [Frame |-> scanned.frames, Timestamp |-> duration]
        n          == Len(cs.Tracks)
    IN  IF ~indexNr.ok
        THEN Res(cs, Err("failed to parse index number", 0, 0, nr, ZeroIndex))
        ELSE IF indexNr.val # 1
        THEN Res(cs, Err("expected index number 1, got %d", indexNr.val, 0, <<>>, ZeroIndex))
        ELSE IF ~scanned.ok
        THEN Res(cs, Err("error parsing timestamp and frame", 0, 0, indexPoint, ZeroIndex))
        ELSE IF n = 0 THEN Res(cs, PanicErr)
        ELSE LET a == assignIndexPoint(index, cs.Tracks[n].Index01)
             IN  Res([cs EXCEPT !.Tracks[n].Index01 = a.field], a.err)

\* a faulty parseTitle: the title always goes to the album
parseTitleAlbum(cs, parameters) ==
    LET v == validateParameters(TitleCommand, Len(parameters)) IN
    IF IsErr(v) THEN Res(cs, Wrap("invalid TITLE parameters", v))
    ELSE
    LET a == parseString(Join(parameters), cs.AlbumTitle)
    IN  IF IsErr(a.err) THEN Res(cs, Wrap("error parsing album TITLE", a.err))
        ELSE Res([cs EXCEPT !.AlbumTitle = a.field], NoErr)

parseTitle(cs, parameters) ==
    LET v == validateParameters(TitleCommand, Len(parameters)) IN
    IF IsErr(v) THEN Res(cs, Wrap("invalid TITLE parameters", v))
    ELSE
    LET nrTracks == Len(cs.Tracks) IN
    IF nrTracks = 0
    THEN LET a == parseString(Join(parameters), cs.AlbumTitle)
         IN  IF IsErr(a.err) THEN Res(cs, Wrap("error parsing album TITLE", a.err))
             ELSE Res([cs EXCEPT !.AlbumTitle = a.field], NoErr)
    ELSE LET a == parseString(Join(parameters), cs.Tracks[nrTracks].Title)
         IN  IF IsErr(a.err)
             THEN Res(cs, [Wrap("error parsing track %d TITLE", a.err) EXCEPT !.n1 = nrTracks - 1])
             ELSE Res([cs EXCEPT !.Tracks[nrTracks].Title = a.field], NoErr)

parseDate(cs, parameters) ==
    LET v == validateParameters(RemDateCommand, Len(parameters)) IN
    IF IsErr(v) THEN Res(cs, Wrap("invalid REM DATE parameters", v))
    ELSE
    LET a == parseString(Join(parameters), cs.Date)
    IN  IF IsErr(a.err) THEN Res(cs, Wrap("error parsing REM DATE parameters", a.err))
        ELSE Res([cs EXCEPT !.Date = a.field], NoErr)

parseGenre(cs, parameters) ==
    LET v == validateParameters(RemGenreCommand, Len(parameters)) IN
    IF IsErr(v) THEN Res(cs, Wrap("invalid REM GENRE parameters", v))
    ELSE
    LET a == parseString(Join(parameters), cs.Genre)
    IN  IF IsErr(a.err) THEN Res(cs, Wrap("error parsing REM GENRE parameters", a.err))
        ELSE Res([cs EXCEPT !.Genre = a.field], NoErr)

\* if err != nil { return fmt.Errorf("error parsing REM %q command: %w", command, err) }
wrapRem(r) == Res(r.c, Wrap("error parsing REM %q command", r.err))

\* a faulty parseRem: a sub-command other than GENRE and DATE is refused
parseRemStrict(cs, parameters) ==
    IF parameters = <<>> THEN Res(cs, PanicErr)
    ELSE wrapRem(CASE ToUpper(parameters[1]) = RemGenreCommand.Name ->
                         parseGenre(cs, Tail(parameters))
                   [] ToUpper(parameters[1]) = RemDateCommand.Name ->
                         parseDate(cs, Tail(parameters))
                   [] OTHER -> Res(cs, Err("unexpected command: %s", 0, 0, parameters[1], ZeroIndex)))

\* parameters[0] panics when REM comes without a token after it
parseRem(cs, parameters) ==
    IF parameters = <<>> THEN Res(cs, PanicErr)
    ELSE wrapRem(CASE ToUpper(parameters[1]) = RemGenreCommand.Name ->
                         parseGenre(cs, Tail(parameters))
                   [] ToUpper(parameters[1]) = RemDateCommand.Name ->
                         parseDate(cs, Tail(parameters))
                   [] OTHER -> Res(cs, NoErr))

\* if err != nil { return fmt.Errorf("error parsing %q command: %w", command, err) }
wrapCommand(r, command) ==
    IF IsErr(r.err) /\ ~IsPanic(r.err)
    THEN Res(r.c, [Wrap("error parsing %q command", r.err) EXCEPT !.cmd = command])
    ELSE r

\* a faulty switch: the command is compared as written, not in upper case
dispatchExact(cs, command, upper, parameters) ==
    CASE command = FileCommand.Name -> wrapCommand(parseFile(cs, parameters), command)
      [] command = PerformerCommand.Name -> wrapCommand(parsePerformer(cs, parameters), command)
      [] command = TrackCommand.Name -> wrapCommand(parseTrack(cs, parameters), command)
      [] command = TrackIndexCommand.Name -> wrapCommand(parseTrackIndex01(cs, parameters), command)
      [] command = TitleCommand.Name -> wrapCommand(parseTitle(cs, parameters), command)
      [] command = RemCommand.Name -> wrapCommand(parseRem(cs, parameters), command)
      [] OTHER -> Res(cs, Err("unexpected command: %s", 0, 0, command, ZeroIndex))

\* the switch of parseLine
dispatch(cs, command, upper, parameters) ==
    CASE upper = FileCommand.Name -> wrapCommand(parseFile(cs, parameters), command)
      [] upper = PerformerCommand.Name -> wrapCommand(parsePerformer(cs, parameters), command)
      [] upper = TrackCommand.Name -> wrapCommand(parseTrack(cs, parameters), command)
      [] upper = TrackIndexCommand.Name -> wrapCommand(parseTrackIndex01(cs, parameters), command)
      [] upper = TitleCommand.Name -> wrapCommand(parseTitle(cs, parameters), command)
      [] upper = RemCommand.Name -> wrapCommand(parseRem(cs, parameters), command)
      [] OTHER -> Res(cs, Err("unexpected command: %s", 0, 0, command, ZeroIndex))

\* the fields of the line: the command and its parameters
splitLine(cs, fields) ==
    IF fields = <<>> THEN Res(cs, PanicErr)
    ELSE dispatch(cs, fields[1], ToUpper(fields[1]), Tail(fields))

\* fields[0] panics when the line holds no field
parseLine(cs, ln) == splitLine(cs, Fields(ln))

-----------------------------------------------------------------------------
(* The document validator *)

\* a faulty comparison: equal (timestamp, frame) pairs are let through
OverlappingStrictFrame(tracks, i) ==
    \/ tracks[i].Index01.Timestamp > tracks[i + 1].Index01.Timestamp
    \/ /\ tracks[i].Index01.Timestamp = tracks[i + 1].Index01.Timestamp
       /\ tracks[i].Index01.Frame > tracks[i + 1].Index01.Frame

\* the pair (i, i+1) overlaps
Overlapping(tracks, i) ==
    \/ tracks[i].Index01.Timestamp > tracks[i + 1].Index01.Timestamp
    \/ /\ tracks[i].Index01.Timestamp = tracks[i + 1].Index01.Timestamp
       /\ tracks[i].Index01.Frame >= tracks[i + 1].Index01.Frame

\* the loop of validateTracks from position i on
RECURSIVE validateTracksFrom(_, _)
validateTracksFrom(tracks, i) ==
    IF i > Len(tracks) THEN NoErr
    ELSE IF tracks[i].Type = <<>>
    THEN Err("missing track type", 0, 0, <<>>, ZeroIndex)
    ELSE IF i < Len(tracks) /\ Overlapping(tracks, i)
    THEN Err("overlapping indices in tracks %d and %d", i, i + 1, <<>>, ZeroIndex)
    ELSE validateTracksFrom(tracks, i + 1)

validateTracks(cs) == validateTracksFrom(cs.Tracks, 1)

\* a faulty validate: an empty track list is let through
validateNoTracks(cs) ==
    IF cs.FileName = <<>> THEN Err("missing file name", 0, 0, <<>>, ZeroIndex)
    ELSE IF cs.Format = <<>> THEN Err("missing file format", 0, 0, <<>>, ZeroIndex)
    ELSE Wrap("invalid tracks", validateTracks(cs))

\* a faulty validate: the track list is looked at before file name and format
validateTracksFirst(cs) ==
    IF Len(cs.Tracks) = 0 THEN Err("missing tracks", 0, 0, <<>>, ZeroIndex)
    ELSE IF cs.FileName = <<>> THEN Err("missing file name", 0, 0, <<>>, ZeroIndex)
    ELSE IF cs.Format = <<>> THEN Err("missing file format", 0, 0, <<>>, ZeroIndex)
    ELSE Wrap("invalid tracks", validateTracks(cs))

validate(cs) ==
    IF cs.FileName = <<>> THEN Err("missing file name", 0, 0, <<>>, ZeroIndex)
    ELSE IF cs.Format = <<>> THEN Err("missing file format", 0, 0, <<>>, ZeroIndex)
    ELSE IF Len(cs.Tracks) = 0 THEN Err("missing tracks", 0, 0, <<>>, ZeroIndex)
    ELSE Wrap("invalid tracks", validateTracks(cs))

-----------------------------------------------------------------------------
(* The input: the raw lines the scanner may yield *)

\* most lines Parse reads in one run of the general specification
MaxLines == 4
\* most lines Parse reads in one run of the track-ceiling specification
MaxTrackLines == 101
\* most lines Parse reads in one run of the index specification
MaxIndexLines == 7

\* %02d
Fmt02(n) ==
    IF n < 100 THEN <<DigitChar(n \div 10), DigitChar(n % 10)>>
    ELSE <<DigitChar(n \div 100), DigitChar((n \div 10) % 10), DigitChar(n % 10)>>

Stamp(m, s, f) == Fmt02(m) \o <<":">> \o Fmt02(s) \o <<":">> \o Fmt02(f)

\* a command line: the tokens separated by single spaces
Cmd(tokens) == Join(tokens)

lowerRem == <<"r", "e", "m">>
lowerTrack == <<"t", "r", "a", "c", "k">>
Unsupported == <<"U", "N", "S", "U", "P", "P", "O", "R", "T", "E", "D">>
Wave == <<"W", "A", "V", "E">>
Mp3 == <<"M", "P", "3">>
Audio == <<"A", "U", "D", "I", "O">>
Rock == <<"R", "o", "c", "k">>
Pop == <<"P", "o", "p">>
Comment == <<"C", "O", "M", "M", "E", "N", "T">>
Quotes == <<"\"", "\"">>

BlankLines == { <<>>, <<" ", "\t">>, Quotes }

BareRemLines == { RemCommand.Name, <<" ">> \o RemCommand.Name \o <<"\t">>, lowerRem }

\* a form feed is white space to strings.Fields and is not in trimChars
FormFeedLines == { <<"\f">> }

FileLines ==
    { Cmd(<<FileCommand.Name, <<"a">>, Wave>>),
      Cmd(<<FileCommand.Name, <<"b">>, Mp3>>),
      Cmd(<<FileCommand.Name, Quotes, Wave>>),
      Cmd(<<FileCommand.Name, <<"a">>, Quotes>>) \o <<"\f">>,
      Cmd(<<FileCommand.Name>>),
      Cmd(<<FileCommand.Name, <<"a">>>>),
      Cmd(<<FileCommand.Name, <<"a">>, <<"b">>, Wave>>) }

PerformerLines ==
    { Cmd(<<PerformerCommand.Name, <<"x">>>>),
      Cmd(<<PerformerCommand.Name, <<"x">>, <<"y">>>>),
      Cmd(<<PerformerCommand.Name, Quotes>>) \o <<"\f">>,
      Cmd(<<PerformerCommand.Name>>) }

TitleLines ==
    { Cmd(<<TitleCommand.Name, <<"t">>>>),
      Cmd(<<TitleCommand.Name, <<"u">>, <<"v">>>>),
      Cmd(<<TitleCommand.Name>>) }

TrackLines ==
    { Cmd(<<TrackCommand.Name, Fmt02(n), Audio>>) : n \in 0..4 }
    \cup { Cmd(<<TrackCommand.Name, <<"1">>, Audio>>),
           Cmd(<<lowerTrack, <<"+", "2">>, Audio>>),
           Cmd(<<TrackCommand.Name, <<"x">>, Audio>>),
           Cmd(<<TrackCommand.Name>>),
           Cmd(<<TrackCommand.Name, <<"0", "1">>>>),
           Cmd(<<TrackCommand.Name, <<"0", "1">>, Audio, Audio>>),
           Cmd(<<TrackCommand.Name, <<"0", "1">>, Quotes>>) \o <<"\f">> }

IndexLines ==
    { Cmd(<<TrackIndexCommand.Name, <<"0", "1">>, Stamp(0, 0, 0)>>),
      Cmd(<<TrackIndexCommand.Name, <<"0", "1">>, Stamp(0, 1, 0)>>),
      Cmd(<<TrackIndexCommand.Name, <<"0", "1">>, <<"1", ":", "2", ":", "3">>>>),
      Cmd(<<TrackIndexCommand.Name, <<"0", "1">>, <<"0", "0", "-", "0", "1", "-", "0", "0">>>>),
      Cmd(<<TrackIndexCommand.Name, <<"0", "2">>, Stamp(0, 1, 0)>>),
      Cmd(<<TrackIndexCommand.Name, <<"0", "2">>, <<"0", "0", "-", "0", "1", "-", "0", "0">>>>),
      Cmd(<<TrackIndexCommand.Name, <<"x">>, Stamp(0, 1, 0)>>),
      Cmd(<<TrackIndexCommand.Name>>),
      Cmd(<<TrackIndexCommand.Name, <<"0", "1">>>>),
      Cmd(<<TrackIndexCommand.Name, <<"0", "1">>, Stamp(0, 1, 0), <<"x">>>>) }

RemLines ==
    { Cmd(<<RemCommand.Name, RemGenreCommand.Name, Rock>>),
      Cmd(<<lowerRem, <<"g", "e", "n", "r", "e">>, Pop>>),
      Cmd(<<RemCommand.Name, RemGenreCommand.Name>>),
      Cmd(<<RemCommand.Name, RemDateCommand.Name, <<"1", "9", "9", "9">>>>),
      Cmd(<<RemCommand.Name, RemDateCommand.Name>>),
      Cmd(<<RemCommand.Name, Comment, <<"x">>>>) }

UnexpectedLines == { Cmd(<<Unsupported, <<"f", "o", "o">>, <<"b", "a", "r">>>>) }

\* the lines of the general specification
RawLines ==
    BlankLines \cup BareRemLines \cup FormFeedLines \cup FileLines \cup PerformerLines
    \cup TitleLines \cup TrackLines \cup IndexLines \cup RemLines \cup UnexpectedLines

-----------------------------------------------------------------------------
(* Parse *)

Init ==
    /\ pc = "start"
    /\ maybeBom = "unread"
    /\ c = NewCueSheet
    /\ lineNr = 0
    /\ line = <<>>
    /\ ret = [doc |-> <<>>, err |-> NoErr]
    /\ seen = {}
    /\ trackNrs = <<>>
    /\ indexed = <<>>
    /\ read = 0

\* return nil, fmt.Errorf("line %d:\t%s:\n\t%w", lineNr, line, err)
LineErr(nr, ln, e) == [Wrap("line %d:\t%s:", e) EXCEPT !.lineNr = nr, !.line = ln]

\* what Parse returns when the first ReadRune fails: the stream holds zero bytes
FirstRuneError ==
    [doc |-> <<>>,
     err |-> Err("error reading first rune: %s", 0, 0, <<"E", "O", "F">>, ZeroIndex)]

\* bomReader.ReadRune(): the stream is empty (an error), starts with the byte-order
\* mark (dropped), or starts with another character (put back: a first line follows)
ReadRune ==
    /\ pc = "start"
    /\ \E first \in {"EOF", "BOM", "rune"} :
          /\ maybeBom' = first
          /\ IF first = "EOF"
             THEN /\ pc' = "done"
                  /\ ret' = FirstRuneError
             ELSE /\ pc' = "scan"
                  /\ UNCHANGED ret
    /\ UNCHANGED <<c, lineNr, line, hist, read>>

\* the upper-case command name of a line, as a set (empty for a line without fields)
CommandOf(ln) == IF Fields(ln) = <<>> THEN {} ELSE {ToUpper(Fields(ln)[1])}

\* the call appended a track
Appended(cs, r) == ~IsErr(r.err) /\ Len(r.c.Tracks) = Len(cs.Tracks) + 1

\* the history variables after the call of parseLine on line ln returned r
Record(ln, r, cmd) ==
    /\ seen' = seen \cup cmd
    /\ trackNrs' = IF Appended(c, r) THEN Append(trackNrs, Atoi(Fields(ln)[2]).val)
                   ELSE trackNrs
    /\ indexed' = IF Appended(c, r) THEN Append(indexed, 0)
                  ELSE IF ~IsErr(r.err) /\ cmd = {TrackIndexCommand.Name}
                  THEN [indexed EXCEPT ![Len(indexed)] = @ + 1]
                  ELSE indexed

\* a faulty return: the cue sheet built so far is returned along with the error
DispatchedPartial(ln, r) ==
    /\ c' = r.c
    /\ Record(ln, r, CommandOf(ln))
    /\ IF IsPanic(r.err)
       THEN pc' = "panic" /\ UNCHANGED ret
       ELSE IF IsErr(r.err)
       THEN /\ pc' = "done"
            /\ ret' = [doc |-> <<r.c>>, err |-> LineErr(lineNr + 1, ln, r.err)]
       ELSE UNCHANGED <<pc, ret>>

\* a faulty loop: the error of a line is kept and the loop goes on
DispatchedGoesOn(ln, r) ==
    /\ c' = r.c
    /\ Record(ln, r, CommandOf(ln))
    /\ IF IsPanic(r.err)
       THEN pc' = "panic" /\ UNCHANGED ret
       ELSE IF IsErr(r.err)
       THEN /\ pc' = pc
            /\ ret' = [doc |-> <<>>, err |-> LineErr(lineNr + 1, ln, r.err)]
       ELSE UNCHANGED <<pc, ret>>

\* the rest of the turn once parseLine returned r: a panic, the error returned, or
\* the next turn
Dispatched(ln, r) ==
    /\ c' = r.c
    /\ Record(ln, r, CommandOf(ln))
    /\ IF IsPanic(r.err)
       THEN pc' = "panic" /\ UNCHANGED ret
       ELSE IF IsErr(r.err)
       THEN /\ pc' = "done"
            /\ ret' = [doc |-> <<>>, err |-> LineErr(lineNr + 1, ln, r.err)]
       ELSE UNCHANGED <<pc, ret>>

\* a faulty loop: a skipped line is not counted
TurnUncounted(ln) ==
    /\ line' = ln
    /\ IF ln = <<>> \/ ln = RemCommand.Name
       THEN UNCHANGED <<pc, c, ret, hist, lineNr>>
       ELSE lineNr' = lineNr + 1 /\ Dispatched(ln, parseLine(c, ln))

\* the turn of the loop on the trimmed line ln
Turn(ln) ==
    /\ line' = ln
    /\ lineNr' = lineNr + 1
    /\ IF ln = <<>> \/ ln = RemCommand.Name
       THEN UNCHANGED <<pc, c, ret, hist>>
       ELSE Dispatched(ln, parseLine(c, ln))

\* one turn of the loop: scanner.Scan() yields raw
Scan(raw, limit) ==
    /\ pc = "scan"
    /\ lineNr < limit
    /\ Turn(Trim(raw, trimChars))
    /\ read' = read + 1
    /\ UNCHANGED maybeBom

\* scanner.Scan() is false: validate and return.  A stream whose first character
\* was put back holds at least one line.
Eof ==
    /\ pc = "scan"
    /\ maybeBom = "BOM" \/ lineNr > 0
    /\ LET e == validate(c)
       IN  ret' = IF IsErr(e)
                  THEN [doc |-> <<>>, err |-> Wrap("invalid cue sheet", e)]
                  ELSE [doc |-> <<c>>, err |-> NoErr]
    /\ pc' = "done"
    /\ UNCHANGED <<maybeBom, c, lineNr, line, hist, read>>

ScanLine == \E raw \in RawLines : Scan(raw, MaxLines)

Next == ReadRune \/ ScanLine \/ Eof

Spec == Init /\ [][Next]_vars

-----------------------------------------------------------------------------
(* The track-ceiling specification: a FILE line and TRACK lines numbered up to
   MaxTrackLines, enough of them to pass maxTracks *)

CeilingLines ==
    { Cmd(<<FileCommand.Name, <<"a">>, Wave>>) }
    \cup { Cmd(<<TrackCommand.Name, Fmt02(n), Audio>>) : n \in 1..MaxTrackLines }

ScanCeilingLine == \E raw \in CeilingLines : Scan(raw, MaxTrackLines)

NextTracks == ReadRune \/ ScanCeilingLine \/ Eof

SpecTracks == Init /\ [][NextTracks]_vars

-----------------------------------------------------------------------------
(* The index specification: a FILE line, TRACK lines and INDEX 01 lines, long
   enough for three tracks with an index each *)

\* the tracks of the index specification
MaxIndexTracks == 3

IndexStamps ==
    { Stamp(0, 0, 0), Stamp(0, 0, 1), Stamp(0, 1, 0), Stamp(1, 0, 0),
      <<"-", "1", ":", "0", "0", ":", "0", "0">> }

OrderingLines ==
    { Cmd(<<FileCommand.Name, <<"a">>, Wave>>) }
    \cup { Cmd(<<TrackCommand.Name, Fmt02(n), Audio>>) : n \in 1..MaxIndexTracks }
    \cup { Cmd(<<TrackIndexCommand.Name, <<"0", "1">>, st>>) : st \in IndexStamps }

ScanOrderingLine == \E raw \in OrderingLines : Scan(raw, MaxIndexLines)

NextIndex == ReadRune \/ ScanOrderingLine \/ Eof

SpecIndex == Init /\ [][NextIndex]_vars

-----------------------------------------------------------------------------
(* The title specification: a FILE line, TRACK lines and TITLE lines, long enough
   for an album title and a title on each of two tracks *)

\* most lines Parse reads in one run of the title specification
MaxTitleLines == 6

TitleRoutingLines ==
    { Cmd(<<FileCommand.Name, <<"a">>, Wave>>),
      Cmd(<<TitleCommand.Name, <<"t">>>>),
      Cmd(<<TitleCommand.Name, <<"u">>, <<"v">>>>) }
    \cup { Cmd(<<TrackCommand.Name, Fmt02(n), Audio>>) : n \in 1..MaxIndexTracks }

ScanTitleLine == \E raw \in TitleRoutingLines : Scan(raw, MaxTitleLines)

NextTitle == ReadRune \/ ScanTitleLine \/ Eof

SpecTitle == Init /\ [][NextTitle]_vars

-----------------------------------------------------------------------------
(* Vocabulary of the properties *)

\* a turn of Parse's loop
ScanStep == pc = "scan" /\ lineNr' = lineNr + 1

\* the line's command, compared the way parseLine compares it
CmdIs(ln, name) == CommandOf(ln) = {name}

\* the line's parameter tokens
Params(ln) == IF Fields(ln) = <<>> THEN <<>> ELSE Tail(Fields(ln))

\* Parse returned the line-level error with this cause, for the line just scanned,
\* and no document
LineFailed(cause) ==
    /\ pc' = "done"
    /\ ret'.doc = <<>>
    /\ ret'.err.cause = cause
    /\ ret'.err.lineNr = lineNr'

\* Parse returned from the validator (not from a line, not from the first rune)
ValidatorRan == pc = "done" /\ maybeBom # "EOF" /\ ret.err.lineNr = 0

\* Parse returned a document
ReturnedDocument == pc = "done" /\ ret.doc # <<>>

StringFields == {"Format", "FileName", "AlbumPerformer", "AlbumTitle", "Genre", "Date"}

\* the current values of the string fields the command of line ln assigns, in the
\* order it assigns them; empty for a command that assigns none
TargetValues(cs, ln) ==
    LET p == Params(ln) IN
    CASE CmdIs(ln, FileCommand.Name) /\ Len(p) = 2 -> <<cs.Format, cs.FileName>>
      [] CmdIs(ln, PerformerCommand.Name) /\ Len(p) >= 1 -> <<cs.AlbumPerformer>>
      [] CmdIs(ln, TitleCommand.Name) /\ Len(p) >= 1 ->
            IF cs.Tracks = <<>> THEN <<cs.AlbumTitle>>
            ELSE <<cs.Tracks[Len(cs.Tracks)].Title>>
      [] CmdIs(ln, RemCommand.Name) /\ Len(p) >= 2 /\ ToUpper(p[1]) = RemGenreCommand.Name ->
            <<cs.Genre>>
      [] CmdIs(ln, RemCommand.Name) /\ Len(p) >= 2 /\ ToUpper(p[1]) = RemDateCommand.Name ->
            <<cs.Date>>
      [] OTHER -> <<>>

\* the first non-empty value of vals, or the empty string
RECURSIVE FirstSet(_)
FirstSet(vals) ==
    IF vals = <<>> THEN <<>>
    ELSE IF Head(vals) # <<>> THEN Head(vals)
    ELSE FirstSet(Tail(vals))

-----------------------------------------------------------------------------
(* C1 *)

SetOnceStep ==
    /\ \A f \in StringFields : c[f] # <<>> => c'[f] = c[f]
    /\ \A i \in DOMAIN c.Tracks :
          c.Tracks[i].Title # <<>> =>
             i \in DOMAIN c'.Tracks /\ c'.Tracks[i].Title = c.Tracks[i].Title
    /\ (ScanStep /\ FirstSet(TargetValues(c, line')) # <<>>) =>
          /\ LineFailed("field already set: %v")
          /\ ret'.err.sval = FirstSet(TargetValues(c, line'))

\* C1: a string field (format, file name, album performer, album title, genre, date,
\* a track's title) that holds a non-empty value never changes again, and every later
\* command that assigns it fails with "field already set" naming the value already
\* held by the first set field the command assigns (FILE assigns the format, then the
\* file name), also when the new value equals the old one.
SetOnceStrings == [][SetOnceStep]_vars

\* C1 witness: a second TITLE for the same track was refused, naming the first title
SetOnceWitness ==
    /\ pc = "done"
    /\ ret.err.cause = "field already set: %v"
    /\ CmdIs(line, TitleCommand.Name)
    /\ c.Tracks # <<>>
    /\ ret.err.sval = c.Tracks[Len(c.Tracks)].Title

-----------------------------------------------------------------------------
(* C2 *)

\* C2: after one INDEX 01 command has succeeded for the current track, every further
\* INDEX 01 command before the next TRACK fails, so that no track has its index
\* written by more than one command.
IndexSetOnce == \A i \in DOMAIN indexed : indexed[i] <= 1

-----------------------------------------------------------------------------
(* C3 *)

SequentialStep ==
    /\ Len(trackNrs') = Len(c'.Tracks)
    /\ \A i \in DOMAIN trackNrs' : trackNrs'[i] = i
    /\ (/\ ScanStep
        /\ CmdIs(line', TrackCommand.Name)
        /\ Len(Params(line')) = 2
        /\ Atoi(Params(line')[1]).ok
        /\ Atoi(Params(line')[1]).val # Len(c.Tracks) + 1) =>
          /\ LineFailed("expected track number %d, got %d")
          /\ ret'.err.n1 = Len(c.Tracks) + 1
          /\ ret'.err.n2 = Atoi(Params(line')[1]).val
          /\ c'.Tracks = c.Tracks

\* C3: the track at position i was appended by a TRACK command whose number is i, and
\* a TRACK command whose number differs from the track count + 1 fails with
\* "expected track number X, got Y", X the count + 1, and appends nothing.
SequentialNumbering == [][SequentialStep]_vars

\* C3 witness: with two tracks appended, a TRACK command with a number other than 3
\* was refused
SequentialWitness ==
    /\ pc = "done"
    /\ ret.err.cause = "expected track number %d, got %d"
    /\ Len(c.Tracks) = 2
    /\ trackNrs = <<1, 2>>
    /\ ret.err.n1 = 3

-----------------------------------------------------------------------------
(* C4 *)

CeilingStep ==
    /\ Len(c'.Tracks) <= 99
    /\ (/\ ScanStep
        /\ Len(c.Tracks) = 99
        /\ line' = Cmd(<<TrackCommand.Name, <<"1", "0", "0">>, Audio>>)) =>
          /\ LineFailed("cannot have more than %d tracks")
          /\ ret'.err.n1 = 99
          /\ Len(c'.Tracks) = 99

\* C4: the track list never holds more than 99 tracks, and with 99 tracks appended
\* TRACK 100 fails with "cannot have more than 99 tracks" and leaves 99 tracks.
TrackCeiling == [][CeilingStep]_vars

\* C4 witness: TRACK 100 was refused with 99 tracks in the list
TrackCeilingWitness ==
    /\ pc = "done"
    /\ Len(c.Tracks) = 99
    /\ ret.err.cause = "cannot have more than %d tracks"

-----------------------------------------------------------------------------
(* C5 *)

\* (timestamp, frame) of a is strictly less than that of b, lexicographically
Before(a, b) ==
    \/ a.Timestamp < b.Timestamp
    \/ a.Timestamp = b.Timestamp /\ a.Frame < b.Frame

\* the adjacent pairs of cs that are not strictly increasing
Unordered(cs) ==
    { i \in 1..(Len(cs.Tracks) - 1) :
         ~Before(cs.Tracks[i].Index01, cs.Tracks[i + 1].Index01) }

\* the least element of a non-empty set of numbers
Least(S) == CHOOSE i \in S : \A j \in S : i <= j

\* C5: a document Parse returns has strictly increasing (timestamp, frame) pairs on
\* adjacent tracks; and when the lines raised no error, file name, format and every
\* track type are present and some adjacent pair is not strictly increasing, Parse
\* fails with "overlapping indices in tracks i and i+1" for the first such i.
MonotonicIndices ==
    /\ ReturnedDocument => ret.doc = <<c>> /\ Unordered(c) = {}
    /\ (/\ ValidatorRan
        /\ c.FileName # <<>>
        /\ c.Format # <<>>
        /\ \A i \in DOMAIN c.Tracks : c.Tracks[i].Type # <<>>
        /\ Unordered(c) # {}) =>
          /\ ret.doc = <<>>
          /\ ret.err.cause = "overlapping indices in tracks %d and %d"
          /\ ret.err.n1 = Least(Unordered(c))
          /\ ret.err.n2 = Least(Unordered(c)) + 1

\* C5 witness: three tracks, the first pair in order, the second not: the error
\* names tracks 2 and 3
MonotonicWitness ==
    /\ ValidatorRan
    /\ Len(c.Tracks) = 3
    /\ ret.err.cause = "overlapping indices in tracks %d and %d"
    /\ ret.err.n1 = 2
    /\ c.Tracks[2].Index01 # ZeroIndex

-----------------------------------------------------------------------------
(* C6 *)

\* C6: a document Parse returns has a non-empty file name, a non-empty format, a
\* non-empty track list and a non-empty type on every track.
RequiredFields ==
    ReturnedDocument =>
       /\ ~IsErr(ret.err)
       /\ Len(ret.doc) = 1
       /\ ret.doc[1].FileName # <<>>
       /\ ret.doc[1].Format # <<>>
       /\ ret.doc[1].Tracks # <<>>
       /\ \A i \in DOMAIN ret.doc[1].Tracks : ret.doc[1].Tracks[i].Type # <<>>

\* C6 witness: a document with two tracks was returned
RequiredFieldsWitness == ReturnedDocument /\ Len(ret.doc[1].Tracks) = 2

-----------------------------------------------------------------------------
(* C7 *)

RecognizedCommands ==
    {FileCommand.Name, PerformerCommand.Name, TrackCommand.Name,
     TrackIndexCommand.Name, TitleCommand.Name, RemCommand.Name}

\* C7: no line that starts with a recognized command, in whatever order the lines
\* come, makes Parse crash with an out-of-range access: Parse ends with a document
\* or an error value.
ParseTotal == ~(pc = "panic" /\ CommandOf(line) # {} /\ CommandOf(line) \subseteq RecognizedCommands)

-----------------------------------------------------------------------------
(* C8 *)

\* C8: when the stream held no FILE line and no line raised an error, the stream of
\* zero bytes included, Parse fails with "missing file name".
MissingFileName ==
    (pc = "done" /\ ret.err.lineNr = 0 /\ FileCommand.Name \notin seen) =>
       ret.doc = <<>> /\ ret.err.cause = "missing file name"

-----------------------------------------------------------------------------
(* C9 *)

BareRemStep ==
    (ScanStep /\ Len(Fields(line')) = 1 /\ CmdIs(line', RemCommand.Name)) =>
       pc' = "scan" /\ c' = c /\ ret' = ret

\* C9: a line whose only token is REM in any letter case is skipped: no error, the
\* cue sheet unchanged, and parsing goes on with the next line.
BareRemIgnored == [][BareRemStep]_vars

-----------------------------------------------------------------------------
(* C10 *)

ArityStep ==
    ScanStep =>
       LET p == Params(line')
           unchanged == c' = c
       IN  /\ (/\ \/ CmdIs(line', FileCommand.Name)
                  \/ CmdIs(line', TrackCommand.Name)
                  \/ CmdIs(line', TrackIndexCommand.Name)
               /\ Len(p) # 2) =>
                 /\ LineFailed("expected %d parameters, got %d")
                 /\ ret'.err.n1 = 2
                 /\ ret'.err.n2 = Len(p)
                 /\ unchanged
           /\ (/\ \/ CmdIs(line', PerformerCommand.Name)
                  \/ CmdIs(line', TitleCommand.Name)
                  \/ /\ CmdIs(line', RemCommand.Name)
                     /\ Len(p) >= 1
                     /\ ToUpper(p[1]) \in {RemGenreCommand.Name, RemDateCommand.Name}
               /\ Len(p) = (IF CmdIs(line', RemCommand.Name) THEN 1 ELSE 0)) =>
                 /\ LineFailed("expected at least %d parameters, got %d")
                 /\ ret'.err.n1 = 1
                 /\ ret'.err.n2 = 0
                 /\ unchanged

\* C10: FILE, TRACK and INDEX with a parameter count M other than 2 fail with
\* "expected 2 parameters, got M"; PERFORMER, TITLE, REM GENRE and REM DATE without a
\* parameter (after the GENRE or DATE token) fail with "expected at least 1
\* parameters, got 0"; and the cue sheet is the same after the failure as before.
ArityEnforced == [][ArityStep]_vars

\* C10 witness: a command with three parameters was refused after a FILE line had
\* filled the cue sheet
ArityWitness ==
    /\ pc = "done"
    /\ ret.err.cause = "expected %d parameters, got %d"
    /\ ret.err.n2 = 3
    /\ c.FileName # <<>>
    /\ c.Tracks # <<>>

-----------------------------------------------------------------------------
(* C11 *)

\* C11: whenever Parse returns an error, raised by a line or by the validator, it
\* returns no document, whatever the lines before had put into the cue sheet.
NoPartialDocument == (pc = "done" /\ IsErr(ret.err)) => ret.doc = <<>>

\* C11 witness: a line failed after earlier lines had set the file name and appended
\* a track, and no document came back
NoPartialWitness ==
    /\ pc = "done"
    /\ ret.err.lineNr = 3
    /\ ret.doc = <<>>
    /\ c.FileName # <<>>
    /\ c.Tracks # <<>>

-----------------------------------------------------------------------------
(* C12 *)

\* What Parse returns on the lines read so far once the byte-order mark in front of
\* them is taken away.  The scanner yields the same lines and the loop takes the same
\* turns on them, whether the first rune was dropped or put back; but without the
\* mark a stream of no lines is a stream of zero bytes, on which ReadRune fails.
WithoutBom == IF lineNr = 0 THEN FirstRuneError ELSE ret

\* C12: for every stream s, Parse on the byte-order mark followed by s returns what
\* Parse returns on s: the same document, or the same error.
BomTolerance == (pc = "done" /\ maybeBom = "BOM") => ret = WithoutBom

-----------------------------------------------------------------------------
(* C13 *)

\* the tokens, with token i set between the characters before and after
Wrapped(tokens, i, before, after) ==
    [j \in 1..Len(tokens) |-> IF j = i THEN before \o tokens[j] \o after ELSE tokens[j]]

\* what is put before and after a token: spaces, tabs, double quotes
Decorations ==
    { <<<<" ">>, <<" ", " ">>>>, <<<<"\t">>, <<"\t">>>>, <<<<"\"">>, <<"\"">>>> }

\* the raw lines that are line ln with extra characters around one of its tokens
Decorated(ln) ==
    { Cmd(Wrapped(Fields(ln), i, d[1], d[2])) : i \in 1..Len(Fields(ln)), d \in Decorations }

\* the same field values and the same error cause
SameOutcome(r1, r2) == r1.c = r2.c /\ r1.err.cause = r2.err.cause

TrimStep ==
    (ScanStep /\ line' # <<>> /\ line' # RemCommand.Name) =>
       \A raw \in Decorated(line') :
          SameOutcome(parseLine(c, Trim(raw, trimChars)), parseLine(c, line'))

\* C13: a command line with extra spaces, tabs or double quotes around any one of its
\* tokens (the command, a number, a value) is parsed to the same field values, or
\* fails with the same cause, as the line without them.
IdempotentTrimming == [][TrimStep]_vars

-----------------------------------------------------------------------------
(* C14 *)

\* the handler of the command named upper, applied to the parameters
Handled(cs, upper, parameters) ==
    CASE upper = FileCommand.Name -> parseFile(cs, parameters)
      [] upper = PerformerCommand.Name -> parsePerformer(cs, parameters)
      [] upper = TrackCommand.Name -> parseTrack(cs, parameters)
      [] upper = TrackIndexCommand.Name -> parseTrackIndex01(cs, parameters)
      [] upper = TitleCommand.Name -> parseTitle(cs, parameters)
      [] upper = RemCommand.Name -> parseRem(cs, parameters)

\* the step did what the handler's result r says, for the command as written
Routed(r, command) ==
    /\ c' = r.c
    /\ IF IsPanic(r.err) THEN pc' = "panic"
       ELSE IF IsErr(r.err)
       THEN LineFailed(r.err.cause) /\ ret'.err.cmd = command
       ELSE pc' = "scan" /\ ret' = ret

DispatchStep ==
    (ScanStep /\ line' # RemCommand.Name) =>
       \A fields \in {Fields(line')} \ {<<>>} :
          \A upper \in {ToUpper(fields[1])} :
             IF upper \in RecognizedCommands
             THEN \A r \in {Handled(c, upper, Tail(fields))} : Routed(r, fields[1])
             ELSE /\ LineFailed("unexpected command: %s")
                  /\ ret'.err.sval = fields[1]
                  /\ c' = c

\* C14: a dispatched line whose first token is, in any letter case, FILE, PERFORMER,
\* TRACK, INDEX, TITLE or REM has the effect and the outcome of that command's handler
\* on the line's parameters; a line with any other first token fails with "unexpected
\* command" naming the token as written, and the cue sheet is unchanged.
CommandDispatch == [][DispatchStep]_vars

\* C14 witness: an unexpected command was refused, named in the error, after a FILE
\* line had been handled
CommandDispatchWitness ==
    /\ pc = "done"
    /\ ret.err.cause = "unexpected command: %s"
    /\ ret.err.sval = Unsupported
    /\ ret.err.lineNr = lineNr
    /\ c.FileName # <<>>

-----------------------------------------------------------------------------
(* C15 *)

\* C15: every error Parse returns, whatever its cause, carries the 1-based number of
\* a line that was read and, outermost, the "line N: <trimmed text>" annotation.
LineAnnotated ==
    (pc = "done" /\ IsErr(ret.err)) =>
       /\ ret.err.lineNr \in 1..lineNr
       /\ ret.err.ctx # <<>>
       /\ Head(ret.err.ctx) = "line %d:\t%s:"

-----------------------------------------------------------------------------
(* C16 *)

AbortStep ==
    /\ pc = "done" => UNCHANGED vars
    /\ pc' = "scan" => ~IsErr(ret'.err)
    /\ (ScanStep /\ line' # <<>> /\ line' # RemCommand.Name) =>
          \A r \in {parseLine(c, line')} :
             (IsErr(r.err) /\ ~IsPanic(r.err)) =>
                /\ LineFailed(r.err.cause)
                /\ ret'.err.line = line'
    /\ (pc' = "done" /\ ret'.err.lineNr = 0 /\ maybeBom' # "EOF") =>
          /\ pc = "scan" /\ ~ScanStep
          /\ ret'.err.cause = validate(c).cause

\* C16: once a line fails Parse returns that line's error at once: no later line is
\* read and the validator does not run, so the error is that of the first failing
\* line; the validator's verdict is returned only from a run in which no line failed.
AbortOnFirstError == [][AbortStep]_vars

\* C16 witness: the second line failed and its error was returned, though the cue
\* sheet (no file name) would not have passed the validator either
AbortWitness ==
    /\ pc = "done"
    /\ lineNr = 2
    /\ ret.err.lineNr = 2
    /\ ret.err.line = line
    /\ c.Tracks # <<>>
    /\ IsErr(validate(c))

-----------------------------------------------------------------------------
(* C17 *)

\* a TITLE command with the value val, processed with k tracks in the list
TitleRouted(val, k) ==
    IF k = 0
    THEN /\ c'.Tracks = <<>>
         /\ c.AlbumTitle = <<>> => pc' = "scan" /\ c' = [c EXCEPT !.AlbumTitle = val]
    ELSE /\ c'.AlbumTitle = c.AlbumTitle
         /\ Len(c'.Tracks) = k
         /\ \A i \in 1..(k - 1) : c'.Tracks[i] = c.Tracks[i]
         /\ c.Tracks[k].Title = <<>> =>
               pc' = "scan" /\ c' = [c EXCEPT !.Tracks[k].Title = val]

TitleStep ==
    ScanStep =>
       \A fields \in {Fields(line')} \ {<<>>} :
          (ToUpper(fields[1]) = TitleCommand.Name /\ Len(fields) >= 2) =>
             TitleRouted(Trim(Join(Tail(fields)), trimChars), Len(c.Tracks))

\* C17: a TITLE command processed with no track in the list touches no track and,
\* the album title being unset, sets it; processed with k >= 1 tracks it leaves the
\* album title and tracks 1..k-1 as they are and, the title of track k being unset,
\* sets it and nothing else.  So a TITLE before the first TRACK and one TITLE after
\* each TRACK all succeed.
TitleRouting == [][TitleStep]_vars

\* C17 witness: five lines succeeded: a TITLE, then twice a TRACK and a TITLE; the
\* album and both tracks have their titles
TitleRoutingWitness ==
    /\ pc = "scan"
    /\ lineNr = 5
    /\ c.AlbumTitle # <<>>
    /\ Len(c.Tracks) = 2
    /\ c.Tracks[1].Title # <<>>
    /\ c.Tracks[2].Title # <<>>
    /\ c.Tracks[1].Title # c.Tracks[2].Title

-----------------------------------------------------------------------------
(* C18 *)

UnknownRemStep ==
    ScanStep =>
       \A fields \in {Fields(line')} \ {<<>>} :
          (/\ ToUpper(fields[1]) = RemCommand.Name
           /\ Len(fields) >= 2
           /\ ToUpper(fields[2]) \notin {RemGenreCommand.Name, RemDateCommand.Name}) =>
             pc' = "scan" /\ c' = c /\ ret' = ret

\* C18: a REM line whose sub-command is, in any letter case, neither GENRE nor DATE
\* raises no error and leaves every field of the cue sheet, genre and date included,
\* as it was, wherever in the stream it comes and however often: Parse goes on with
\* the next line from the same cue sheet.
UnknownRemIgnored == [][UnknownRemStep]_vars

\* C18 witness: a REM COMMENT line went through after a TRACK and a REM GENRE line,
\* and the track and the genre are still there
UnknownRemWitness ==
    /\ pc = "scan"
    /\ line = Cmd(<<RemCommand.Name, Comment, <<"x">>>>)
    /\ lineNr >= 3
    /\ c.Tracks # <<>>
    /\ c.Genre # <<>>

-----------------------------------------------------------------------------
(* C19 *)

\* the numbers of the TRACK command the step processed with 99 tracks in the list
\* (none for any other step)
FullListTrackNr ==
    IF ScanStep /\ Len(c.Tracks) = 99
    THEN { Atoi(fields[2]).val :
              fields \in { f \in {Fields(line')} :
                              /\ Len(f) = 3
                              /\ ToUpper(f[1]) = TrackCommand.Name
                              /\ Atoi(f[2]).ok } }
    ELSE {}

\* C19 as claimed: with 99 tracks appended, every further TRACK command with a
\* numeric number token, whatever the number, fails with "cannot have more than 99
\* tracks".
CeilingPrecedence ==
    [][\A nr \in FullListTrackNr : LineFailed("cannot have more than %d tracks")]_vars

NumberThenCeilingStep ==
    \A nr \in FullListTrackNr :
       /\ c'.Tracks = c.Tracks
       /\ IF nr = 100
          THEN LineFailed("cannot have more than %d tracks") /\ ret'.err.n1 = 99
          ELSE /\ LineFailed("expected track number %d, got %d")
               /\ ret'.err.n1 = 100
               /\ ret'.err.n2 = nr

\* C19 amended: with 99 tracks appended, every further TRACK command with a numeric
\* number token fails and appends nothing: with "cannot have more than 99 tracks"
\* when the number is 100, with "expected track number 100, got N" when it is any
\* other number N.
NumberThenCeiling == [][NumberThenCeilingStep]_vars

\* C19 witness: with 99 tracks in the list a TRACK command with a number other than
\* 100 was refused for its number
NumberThenCeilingWitness ==
    /\ pc = "done"
    /\ Len(c.Tracks) = 99
    /\ ret.err.cause = "expected track number %d, got %d"
    /\ ret.err.n1 = 100
    /\ ret.err.n2 = 101

-----------------------------------------------------------------------------
(* C20 *)

\* the token has the form DD:DD:DD and nothing else
ExactStamp(tok) ==
    /\ Len(tok) = 8
    /\ tok[3] = ":" /\ tok[6] = ":"
    /\ \A i \in {1, 2, 4, 5, 7, 8} : tok[i] \in Digits

TimestampStep ==
    (ScanStep /\ c.Tracks # <<>>) =>
       \A fields \in {Fields(line')} \ {<<>>} :
          (/\ ToUpper(fields[1]) = TrackIndexCommand.Name
           /\ Len(fields) = 3
           /\ Atoi(fields[2]).ok /\ Atoi(fields[2]).val = 1
           /\ ~ExactStamp(fields[3])) =>
             /\ LineFailed("error parsing timestamp and frame")
             /\ c' = c

\* C20: an INDEX 01 command for a track is accepted only when its second token has
\* exactly the form DD:DD:DD; with any other token (a field of one digit, a signed
\* field, a wrong separator, a non-digit, trailing characters) it fails with "error
\* parsing timestamp and frame" and the track's index is unchanged.
TimestampFormat == [][TimestampStep]_vars

-----------------------------------------------------------------------------
(* C21 *)

IndexNumberStep ==
    ScanStep =>
       \A fields \in {Fields(line')} \ {<<>>} :
          (ToUpper(fields[1]) = TrackIndexCommand.Name /\ Len(fields) = 3) =>
             \A indexNr \in {Atoi(fields[2])} :
                /\ ~indexNr.ok =>
                      /\ LineFailed("failed to parse index number")
                      /\ ret'.err.sval = fields[2]
                      /\ c' = c
                /\ (indexNr.ok /\ indexNr.val # 1) =>
                      /\ LineFailed("expected index number 1, got %d")
                      /\ ret'.err.n1 = indexNr.val
                      /\ c' = c

\* C21: an INDEX command with two parameters whose first is a number other than 1
\* fails with "expected index number 1, got N"; one whose first is not a number fails
\* with "failed to parse index number"; whatever the second token is (the timestamp
\* is looked at afterwards), and the cue sheet, the current track's index included,
\* is unchanged.
IndexNumber == [][IndexNumberStep]_vars

\* C21 witness: INDEX 02 with a malformed timestamp was refused for its number, on a
\* track
IndexNumberWitness ==
    /\ pc = "done"
    /\ ret.err.cause = "expected index number 1, got %d"
    /\ ret.err.n1 = 2
    /\ ~Sscanf(Fields(line)[3]).ok
    /\ c.Tracks # <<>>

-----------------------------------------------------------------------------
(* C22 *)

\* the tracks of cs with a violation: no type, or an index not before the next one's
BadTracks(cs) ==
    { i \in DOMAIN cs.Tracks :
         \/ cs.Tracks[i].Type = <<>>
         \/ i < Len(cs.Tracks) /\ ~Before(cs.Tracks[i].Index01, cs.Tracks[i + 1].Index01) }

\* the violation of the first bad track: its type comes before its index
TrackViolation(cs, i) ==
    IF cs.Tracks[i].Type = <<>> THEN "missing track type"
    ELSE "overlapping indices in tracks %d and %d"

\* the first violation of cs in the order file name, format, track list, tracks in
\* list order; "" when there is none
FirstViolation(cs) ==
    IF cs.FileName = <<>> THEN "missing file name"
    ELSE IF cs.Format = <<>> THEN "missing file format"
    ELSE IF cs.Tracks = <<>> THEN "missing tracks"
    ELSE IF BadTracks(cs) = {} THEN ""
    ELSE TrackViolation(cs, Least(BadTracks(cs)))

\* C22: the validator reports the first violation only, in the order file name,
\* format, empty track list, then the tracks in list order; a stream with neither FILE
\* nor TRACK gets "missing file name", one with FILE and no TRACK "missing tracks";
\* and a cue sheet without violation is returned.
ValidatorOrder ==
    ValidatorRan =>
       /\ ret.err.cause = FirstViolation(c)
       /\ ret.doc = (IF FirstViolation(c) = "" THEN <<c>> ELSE <<>>)
       /\ ret.err.cause = "overlapping indices in tracks %d and %d" =>
             ret.err.n1 = Least(BadTracks(c))

\* C22 witness: lines were read, none was a FILE or a TRACK that succeeded, and the
\* validator reported the file name, not the tracks
ValidatorOrderWitness ==
    /\ ValidatorRan
    /\ lineNr >= 2
    /\ c.FileName = <<>>
    /\ c.Tracks = <<>>
    /\ c.Genre # <<>>
    /\ ret.err.cause = "missing file name"

-----------------------------------------------------------------------------
(* C23 *)

LineCounterStep ==
    read' = read + 1 =>
       /\ lineNr' = read'
       /\ pc' = "done" => ret'.err.lineNr = read' /\ ret'.err.line = line'

\* C23: Parse's line counter equals the number of lines the scanner has yielded,
\* blank lines and bare REM lines included, so the number in a line's error is the
\* 1-based position of that line in the stream.
LineCounter == [][LineCounterStep]_vars

\* C23 witness: the third line failed after two lines that were skipped (the failing
\* line is the only one that was dispatched), and its error says line 3
LineCounterWitness ==
    /\ pc = "done"
    /\ read = 3
    /\ ret.err.lineNr = 3
    /\ seen = {Unsupported}
    /\ ret.err.cause = "unexpected command: %s"

-----------------------------------------------------------------------------
(* C24 *)

PerformerStep ==
    ScanStep =>
       \A fields \in {Fields(line')} \ {<<>>} :
          (ToUpper(fields[1]) = PerformerCommand.Name /\ Len(fields) >= 2) =>
             /\ c'.Tracks = c.Tracks
             /\ PerformerCommand.Name \in seen =>
                   /\ LineFailed("field already set: %v")
                   /\ ret'.err.sval = c.AlbumPerformer

\* C24: a PERFORMER command with at least one parameter never changes a track,
\* however many tracks there are; and when an earlier PERFORMER line with at least one
\* parameter has been processed, whatever came between, it fails with "field already
\* set" naming the first performer.
PerformerRouting == [][PerformerStep]_vars

-----------------------------------------------------------------------------
(* C25 *)

\* C25: every document Parse returns holds at least one track for which an INDEX 01
\* command was processed.
MandatoryIndex == ReturnedDocument => \E i \in DOMAIN indexed : indexed[i] >= 1

-----------------------------------------------------------------------------
(* C26 *)

\* C26: in every state of Parse a non-empty file name comes with a non-empty format,
\* and the validator never ends with "missing file format".
FormatWithFileName ==
    /\ c.FileName # <<>> => c.Format # <<>>
    /\ ValidatorRan => ret.err.cause # "missing file format"

-----------------------------------------------------------------------------
(* C27 *)

\* the validator ran on a cue sheet with file name, format and a type on every track
ReachedOrdering ==
    /\ ValidatorRan
    /\ c.FileName # <<>>
    /\ c.Format # <<>>
    /\ \A i \in DOMAIN c.Tracks : c.Tracks[i].Type # <<>>

\* C27: a track for which no INDEX command succeeded keeps the zero index; when the
\* validator compares the indices, a stream in which such a track follows another
\* track (with or without an index of its own) fails with "overlapping indices", and
\* a stream of one track without INDEX is accepted.
ZeroIndexCompared ==
    /\ \A i \in DOMAIN indexed : indexed[i] = 0 => c.Tracks[i].Index01 = ZeroIndex
    /\ ReachedOrdering =>
          /\ (\E i \in 2..Len(indexed) : indexed[i] = 0) =>
                /\ ret.doc = <<>>
                /\ ret.err.cause = "overlapping indices in tracks %d and %d"
          /\ (Len(indexed) = 1 /\ indexed[1] = 0) => ReturnedDocument

-----------------------------------------------------------------------------
(* C28 *)

FrozenStep ==
    \A i \in 1..(Len(c.Tracks) - 1) :
       i \in DOMAIN c'.Tracks /\ c'.Tracks[i] = c.Tracks[i]

\* C28: once track k+1 has been appended, no step of Parse changes the type, title or
\* index of a track 1..k, and no track is ever removed.
ClosedTracksFrozen == [][FrozenStep]_vars

\* C28 witness: after TRACK 02 an INDEX and a TITLE command were processed; they went
\* to track 2, and track 1 is as TRACK 01 left it
ClosedTracksWitness ==
    /\ pc = "scan"
    /\ Len(c.Tracks) = 2
    /\ c.Tracks[2].Index01 # ZeroIndex
    /\ c.Tracks[2].Title # <<>>
    /\ c.Tracks[1] = [NewTrack EXCEPT !.Type = Audio]

=============================================================================
